---------------------------- MODULE Spec2Model ----------------------------
(***************************************************************************)
(* Model of the provisioning run of src/src/utils.ts (provision and the    *)
(* helpers it calls) together with the process around it (src/src/index.ts *)
(* and the Node runtime: exit status, signal dispositions, standard input).*)
(*                                                                         *)
(* Byte counts are kept in units of 1e8 bytes so that they fit the         *)
(* checker's integers: 1e9 bytes is Giga units, 1e10 bytes is TenGiga.     *)
(* Prices are kept in ten-thousandths of a dollar.                         *)
(***************************************************************************)
EXTENDS Integers, Sequences, FiniteSets, TLC

(***************************************************************************)
(* Bounds of the model.                                                    *)
(***************************************************************************)
\* number of signal deliveries the environment makes in one run
MaxSignals == 2
\* largest template base size drawn for the sizing runs, in units of 1e8 bytes
MaxBase == 11
\* largest Content-Length drawn for the sizing runs, in units of 1e8 bytes
MaxLength == 4
\* longest URL list a module declares for one key in the script runs
MaxUrls == 2
\* number of calls of formatOffers on one offer list in the filter runs
MaxRuns == 2
\* number of price steps of 0.0001 $ drawn above the base prices in the cost runs
MaxPriceStep == 9
\* largest resolved disk size drawn for the cost runs, in 1e9 bytes
MaxDiskGb == 20

(***************************************************************************)
(* Program constants.                                                      *)
(***************************************************************************)
\* exitStatus of a process that has not exited
NotExited == -1
\* 1e9 bytes, in units of 1e8 bytes (utils.ts:909)
Giga == 10
\* 1e10 bytes, the divisor of the disk cost, in the same units
TenGiga == 100
\* options.maxHourlyCost, default of --max-hourly-cost, in 1/10000 $ (index.ts:25)
MaxHourlyCost == 10000
\* the seed of the minPrice reduce, 100 $, in 1/10000 $
MinPriceSeed == 1000000

\* a JavaScript undefined / missing JSON field of string type
undefined == "undefined"

Truthy(s) == s # undefined /\ s # ""

(***************************************************************************)
(* Data the run reads from disk: the one template file of the template     *)
(* store, in every shape the Template type allows for the fields the       *)
(* control flow looks at, and the module files.                            *)
(***************************************************************************)
TemplateName == "comfy"

OtherTemplateName == "fpstudio"

\* the contents the template file can have (types.ts Template)
TemplateSet ==
  [ name        : {TemplateName},
    hash        : {undefined, "hashA"},
    tag         : {undefined, "vastai/comfy"},
    script      : {undefined, "comfy.sh"},
    size        : {100},
    fileTypes   : {<<"nodes", "models">>},
    environment : {<< <<"WEB_PORT", <<"8188">> >> >>},
    runType     : {undefined} ]
  \cup
  [ name        : {OtherTemplateName},
    hash        : {"hashF"},
    tag         : {undefined},
    script      : {undefined},
    size        : {75},
    fileTypes   : {<<>>},
    environment : {<<>>},
    runType     : {"ssh"} ]

NoTemplate ==
  [ name |-> undefined, hash |-> undefined, tag |-> undefined,
    script |-> undefined, size |-> 0, fileTypes |-> <<>>,
    environment |-> <<>>, runType |-> undefined ]

\* readdir order of ./modules
ModuleNames == <<"A", "B", "F">>

\* module.template
ModuleTemplate(m) == IF m = "F" THEN OtherTemplateName ELSE TemplateName

\* module.files as Object.entries yields it: a sequence of <<key, urls>>
ModuleFiles(m) ==
  CASE m = "A" -> << <<"nodes", <<"X">> >> >>
    [] m = "B" -> << <<"nodes", <<"X">> >>, <<"models", <<"Y">> >> >>
    [] OTHER   -> << <<"nodes", <<"Z">> >> >>

\* Content-Length the mirror reports for a URL, in units of 1e8 bytes
UrlLength(u) == CASE u = "X" -> 30 [] u = "Y" -> 10 [] OTHER -> 25

RECURSIVE Flatten(_)
Flatten(entries) ==
  IF entries = <<>> THEN <<>>
  ELSE Head(entries)[2] \o Flatten(Tail(entries))

\* the URLs of a module in the order the two nested for-loops visit them
ModuleUrls(m) == Flatten(ModuleFiles(m))

SeqRange(s) == { s[i] : i \in 1..Len(s) }

(***************************************************************************)
(* Map<string, number>: a sequence of <<key, value>> in insertion order.   *)
(***************************************************************************)
MapHas(map, k) == \E i \in 1..Len(map) : map[i][1] = k

MapSet(map, k, v) ==
  IF MapHas(map, k)
  THEN [ i \in 1..Len(map) |-> IF map[i][1] = k THEN <<k, v>> ELSE map[i] ]
  ELSE Append(map, <<k, v>>)

(***************************************************************************)
(* Offers and the client-side filter of formatOffers.                      *)
(***************************************************************************)
\* a string as the sequence of its characters
Chars_RTX5090 == <<"R", "T", "X", " ", "5", "0", "9", "0">>
Chars_RTX4090 == <<"R", "T", "X", " ", "4", "0", "9", "0">>
Chars_H100    == <<"H", "1", "0", "0">>
Chars_rtx5080 == <<"r", "t", "x", "5", "0", "8", "0">>
Chars_RTXA5000 == <<"R", "T", "X", " ", "A", "5", "0", "0", "0">>

Lower(c) ==
  CASE c = "R" -> "r" [] c = "T" -> "t" [] c = "X" -> "x" [] c = "H" -> "h"
    [] OTHER -> c

IsDigit(c) == c \in {"0", "1", "2", "3", "4", "5", "6", "7", "8", "9"}

IsSpace(c) == c \in {" ", "\t"}

\* /rtx\s*5[0-9]{3}/i matched at position i of name
rtx5000MatchAt(name, i) ==
  /\ i + 2 <= Len(name)
  /\ Lower(name[i]) = "r" /\ Lower(name[i + 1]) = "t" /\ Lower(name[i + 2]) = "x"
  /\ \E k \in 0..Len(name) :
       /\ i + 3 + k + 3 <= Len(name)
       /\ \A j \in (i + 3)..(i + 2 + k) : IsSpace(name[j])
       /\ name[i + 3 + k] = "5"
       /\ \A j \in (i + 4 + k)..(i + 6 + k) : IsDigit(name[j])

\* the pattern without the flag i: /rtx\s*5[0-9]{3}/
rtx5000Regex_caseSensitive(name) ==
  \E i \in 1..Len(name) :
    /\ rtx5000MatchAt(name, i)
    /\ name[i] = "r" /\ name[i + 1] = "t" /\ name[i + 2] = "x"

\* rtx5000Regex.test(name)
rtx5000Regex(name) == \E i \in 1..Len(name) : rtx5000MatchAt(name, i)

MkOffer(id, name, gpu, disk, total) ==
  [ id |-> id, gpu_name |-> name,
    search |-> [ gpuCostPerHour |-> gpu, diskHour |-> disk, totalHour |-> total ] ]

\* what the marketplace lists, in its own order (ascending dph_total)
CatalogOffers ==
  << MkOffer(5, Chars_rtx5080, 2000, 500, 2500),
     MkOffer(1, Chars_RTX5090, 2500, 500, 3000),
     MkOffer(2, Chars_RTX4090, 3504, 500, 4004),
     MkOffer(4, Chars_RTXA5000, 9000, 1000, 10000),
     MkOffer(3, Chars_H100, 24000, 1000, 25000) >>

NoOffer == MkOffer(0, <<>>, 0, 0, 0)

\* RegexTest of a pattern with the flag g: the search starts at lastIndex,
\* which is set behind the match, or to 0 when nothing matches
RegexTest_global(name, li) ==
  LET starts == { i \in (li + 1)..Len(name) : rtx5000MatchAt(name, i) }
  IN  IF starts = {} THEN [ found |-> FALSE, lastIndex |-> 0 ]
      ELSE LET i == CHOOSE a \in starts : \A b \in starts : a <= b
               k == CHOOSE n \in 0..Len(name) :
                      /\ i + 3 + n <= Len(name)
                      /\ \A j \in (i + 3)..(i + 2 + n) : IsSpace(name[j])
                      /\ name[i + 3 + n] = "5"
           IN  [ found |-> TRUE, lastIndex |-> i + 6 + k ]

\* rtx5000Regex.test(name) with the regular expression's lastIndex li: the
\* pattern has neither the flag g nor y, so the search starts at the first
\* character and lastIndex is left alone
RegexTest(name, li) == [ found |-> rtx5000Regex(name), lastIndex |-> li ]

RECURSIVE FilterDenied(_, _)
\* offers.filter((offer) => !rtx5000Regex.test(offer.gpu_name))
FilterDenied(list, li) ==
  IF list = <<>> THEN [ kept |-> <<>>, lastIndex |-> li ]
  ELSE LET t    == RegexTest(Head(list).gpu_name, li)
           rest == FilterDenied(Tail(list), t.lastIndex)
       IN  [ kept |-> IF t.found THEN rest.kept ELSE <<Head(list)>> \o rest.kept,
             lastIndex |-> rest.lastIndex ]

RECURSIVE minPrice(_, _)
\* offers.reduce((prev, curr) => prev < curr.search.totalHour ? prev : ..., 100)
minPrice(list, prev) ==
  IF list = <<>> THEN prev
  ELSE LET curr == Head(list).search.totalHour
       IN  minPrice(Tail(list), IF prev < curr THEN prev ELSE curr)

RECURSIVE maxPrice(_, _)
\* offers.reduce((prev, curr) => prev > curr.search.totalHour ? prev : ..., 0)
maxPrice(list, prev) ==
  IF list = <<>> THEN prev
  ELSE LET curr == Head(list).search.totalHour
       IN  maxPrice(Tail(list), IF prev > curr THEN prev ELSE curr)

\* (offer.search.totalHour - minPrice) / (maxPrice - minPrice) as a fraction;
\* a denominator of 0 makes the quotient NaN or an infinity
costRatio(o, list) ==
  LET lo == minPrice(list, MinPriceSeed)
      hi == maxPrice(list, 0)
  IN  [ num |-> o.search.totalHour - lo, den |-> hi - lo ]

\* one call of formatOffers: the choices it returns and the lastIndex it leaves
formatOffersRun(maxHourlyCost, offerList, li) ==
  LET d           == FilterDenied(offerList, li)
      inBudget(o) == o.search.totalHour <= maxHourlyCost
      kept        == SelectSeq(d.kept, inBudget)
  IN  [ choices |-> [ i \in 1..Len(kept) |->
                       [ value |-> kept[i], ratio |-> costRatio(kept[i], offerList) ] ],
        lastIndex |-> d.lastIndex ]

\* the offers formatOffers turns into choices (the value of each choice)
formatOffers(maxHourlyCost, offerList) ==
  LET c == formatOffersRun(maxHourlyCost, offerList, 0).choices
  IN  [ i \in 1..Len(c) |-> c[i].value ]

(***************************************************************************)
(* Text of the paste service's answer, as a sequence of tokens, and        *)
(* String.prototype.replace(pattern, replacement) on the first occurrence. *)
(***************************************************************************)
PasteUrlBody   == <<"https://", "pastebin.com/", "AbC123">>
PasteErrorBody == <<"Bad API request, invalid api_dev_key">>

RECURSIVE ReplaceFirst(_, _, _)
ReplaceFirst(text, tok, repl) ==
  IF text = <<>> THEN <<>>
  ELSE IF Head(text) = tok THEN repl \o Tail(text)
       ELSE <<Head(text)>> \o ReplaceFirst(Tail(text), tok, repl)

\* url.replace('pastebin.com/', 'pastebin.com/raw/')
RawUrl(text) == ReplaceFirst(text, "pastebin.com/", <<"pastebin.com/", "raw/">>)

(***************************************************************************)
(* Disk sizing of provision and the request builder.                       *)
(***************************************************************************)
RECURSIVE ConcatMaps(_, _)
\* the entries of module.fileSizes of the chosen modules, in loop order
ConcatMaps(mods, sizes) ==
  IF mods = <<>> THEN <<>>
  ELSE sizes[Head(mods)] \o ConcatMaps(Tail(mods), sizes)

RECURSIVE AddUnseen_noDedupe(_, _, _)
\* the loop without the seenUrls test: every entry is added
AddUnseen_noDedupe(entries, seenUrls, acc) ==
  IF entries = <<>> THEN acc
  ELSE AddUnseen_noDedupe(Tail(entries), seenUrls, acc + Head(entries)[2])

RECURSIVE AddUnseen(_, _, _)
\* the loop over the entries with seenUrls
AddUnseen(entries, seenUrls, acc) ==
  IF entries = <<>> THEN acc
  ELSE LET url  == Head(entries)[1]
           size == Head(entries)[2]
       IN  IF url \in seenUrls
           THEN AddUnseen(Tail(entries), seenUrls, acc)
           ELSE AddUnseen(Tail(entries), seenUrls \cup {url}, acc + size)

\* Math.ceil(a / b) for a >= 0, b > 0
Ceil(a, b) == (a + b - 1) \div b

\* diskSizeBytes after the rounding to whole gigabytes
DiskSize(t, mods, sizes) ==
  LET raw == AddUnseen(ConcatMaps(mods, sizes), {}, t.size)
  IN  Ceil(raw, Giga) * Giga

NoRequest == [ unset |-> TRUE ]

\* 0.001 $, the step of toFixed(3), in 1/10000 $
Milli == 10

\* hourlyDiskCost with 1e9 as the divisor
hourlyDiskCost_perGiga(o, disk) == [ num |-> o.search.diskHour * disk, den |-> Giga ]

\* hourlyDiskCost as a fraction of 1/10000 $
hourlyDiskCost(o, disk) == [ num |-> o.search.diskHour * disk, den |-> TenGiga ]

\* x.toFixed(3) of a fraction x >= 0, in 1/1000 $: the nearest multiple of
\* 0.001, the larger one of two equally near
toFixed3(x) == (2 * x.num + Milli * x.den) \div (2 * Milli * x.den)

\* hourlyCost and storageCost of the confirmation message, in 1/1000 $
Quote(o, disk) ==
  LET d == hourlyDiskCost(o, disk)
  IN  [ hourlyCost  |-> toFixed3([ num |-> o.search.gpuCostPerHour * d.den + d.num,
                                  den |-> d.den ]),
        storageCost |-> toFixed3(d) ]

\* the cost figures before the confirmation message is built
NoQuote == [ hourlyCost |-> -1, storageCost |-> -1 ]

\* the create payload: the fixed fields, then exactly the branch taken
BuildRequest(t, env, disk) ==
  LET base == [ extra_env     |-> env,
                runtype       |-> IF t.runType # undefined THEN t.runType ELSE "jupyter",
                disk          |-> disk \div Giga,
                target_state  |-> "running",
                cancel_unavail |-> TRUE,
                vm            |-> FALSE ]
  IN  IF Truthy(t.hash) THEN base @@ [ template_hash_id |-> t.hash ]
      ELSE IF Truthy(t.tag) THEN base @@ [ image |-> t.tag ]
      ELSE base

(***************************************************************************)
(* Answers of the remote services.                                         *)
(***************************************************************************)
NoResponse == [ status |-> "none", body |-> "none" ]

Response(status, body) == [ status |-> status, body |-> body ]

\* status "reject": the fetch promise rejects (network error)
SearchResponses ==
  { Response("reject", "none"),
    Response("ok", "offers"), Response("ok", "emptyOffers"),
    Response("error", "noOffers"), Response("error", "nonjson"),
    Response("error", "null") }

PublishResponses ==
  { Response("reject", "none"), Response("ok", "url"), Response("error", "text") }

CreateResponses ==
  { Response("reject", "none"),
    Response("ok", "created"), Response("ok", "failed"),
    Response("error", "noFields"), Response("error", "nonjson"),
    Response("error", "null") }

LifecycleResponses ==
  { Response("reject", "none"), Response("ok", "json"), Response("error", "json") }

NoResult == [ unset |-> TRUE ]

\* the parsed CreateInstanceResponse of a response whose body is an object
CreateObject(body) ==
  CASE body = "created" -> [ success |-> TRUE, new_contract |-> 7 ]
    [] body = "failed"  -> [ success |-> FALSE ]
    [] OTHER            -> [ error |-> "invalid args" ]

\* result.new_contract is truthy
HasContract(res) == "new_contract" \in DOMAIN res /\ res.new_contract # 0

\* result.success is truthy
IsSuccess(res) == "success" \in DOMAIN res /\ res.success

(***************************************************************************)
(* getScriptUrl: the merge of the module dependencies and the substitution *)
(* of the placeholders.  A script is the sequence of its lines; a          *)
(* placeholder stands on a line of its own.                                *)
(***************************************************************************)
\* key.toUpperCase()
Upper(key) ==
  CASE key = "nodes" -> "NODES" [] key = "models" -> "MODELS" [] OTHER -> key

\* `{{ ${key.toUpperCase()} }}`
Placeholder(key) == "{{ " \o Upper(key) \o " }}"

\* readFile(scriptPath): the scripts of the store
ScriptFile(name) ==
  IF name = "twice.sh"
  THEN << "#!/bin/bash", "NODES=(", "{{ NODES }}", ")",
          "MODELS=(", "{{ MODELS }}", ")", "ALL_NODES=(", "{{ NODES }}", ")" >>
  ELSE << "#!/bin/bash", "NODES=(", "{{ NODES }}", ")",
          "MODELS=(", "{{ MODELS }}", ")" >>

\* formatBashArray without the join: one quoted element per line
formatBashArray(items) ==
  [ i \in 1..Len(items) |-> "    \"" \o items[i] \o "\"" ]

\* uniq of lodash, without the removal of later duplicates
Uniq_keepAll(list) == list

RECURSIVE Uniq(_)
\* uniq of lodash: the first occurrence of every element, in order
Uniq(list) ==
  IF list = <<>> THEN <<>>
  ELSE LET init == Uniq(SubSeq(list, 1, Len(list) - 1))
           last == list[Len(list)]
       IN  IF last \in SeqRange(init) THEN init ELSE Append(init, last)

\* module.files[key] ?? []
FilesGet(entries, key) ==
  IF \E i \in 1..Len(entries) : entries[i][1] = key
  THEN (CHOOSE e \in SeqRange(entries) : e[1] = key)[2]
  ELSE <<>>

RECURSIVE MergeModules(_, _, _, _)
\* the loop over the modules that fills sumModule
MergeModules(sum, keys, mods, fs) ==
  IF mods = <<>> THEN sum
  ELSE MergeModules(
         [ k \in DOMAIN sum |-> Uniq(sum[k] \o FilesGet(fs[Head(mods)], k)) ],
         keys, Tail(mods), fs)

\* sumModule after the merge
SumModule(keys, mods, fs) ==
  MergeModules([ k \in SeqRange(keys) |-> <<>> ], keys, mods, fs)

RECURSIVE Substitute(_, _, _)
\* the loop over template.fileTypes that replaces the placeholders
Substitute(script, keys, sum) ==
  IF keys = <<>> THEN script
  ELSE LET key == Head(keys)
       IN  IF sum[key] = <<>>
           THEN Substitute(script, Tail(keys), sum)
           ELSE Substitute(
                  ReplaceFirst(script, Placeholder(key), formatBashArray(sum[key])),
                  Tail(keys), sum)

NoSum == <<>>

\* the value of sumModule when getScriptUrl builds the paste
SumOf(t, mods, fs) ==
  IF Len(t.fileTypes) > 0 /\ Len(mods) > 0
  THEN SumModule(t.fileTypes, mods, fs)
  ELSE NoSum

\* api_paste_code
PasteCode(t, mods, fs) ==
  IF Len(t.fileTypes) > 0 /\ Len(mods) > 0
  THEN Substitute(ScriptFile(t.script), t.fileTypes, SumOf(t, mods, fs))
  ELSE ScriptFile(t.script)

(***************************************************************************)
(* State.                                                                  *)
(***************************************************************************)
VARIABLES
  pc,              \* where provision is suspended
  exitStatus,      \* exit status of the process, NotExited while it runs
  template,        \* templateInfo
  probeAt,         \* per module: index of the URL whose fetch is awaited
  fileSizes,       \* per module: module.fileSizes
  totalSize,       \* per module: module.totalSize
  modules,         \* the chosen modules, in choice order
  offers,          \* what getOffers returned
  choice,          \* the chosen offer
  diskSizeBytes,   \* diskSizeBytes after rounding
  environmentVars, \* environmentVars
  request,         \* body of the create request
  result,          \* parsed create response
  handlers,        \* the SIGQUIT and SIGINT listeners are registered
  stdin,           \* "paused", "flowing" (after resume) or "ended"
  lifecycle,       \* stop/delete requests issued and still awaited
  signals,         \* signals delivered to the process so far
  sent,            \* number of requests issued, per kind
  console,         \* what was written to the console
  net,             \* last answer received, per kind of request
  aborted,         \* the prompt the operator aborted, if any
  confirmed,       \* the confirmation prompt returned true
  files,           \* per module: module.files
  sumModule,       \* sumModule of getScriptUrl
  paste,           \* api_paste_code of the publish request
  answers,         \* per module: the Content-Length answers its probes got
  lastIndex,       \* rtx5000Regex.lastIndex
  offerChoices,    \* the choices each call of formatOffers returned
  quote            \* hourlyCost and storageCost of the confirmation message

vars ==
  << pc, exitStatus, template, probeAt, fileSizes, totalSize, modules, offers,
     choice, diskSizeBytes, environmentVars, request, result, handlers, stdin,
     lifecycle, signals, sent, console, net, aborted, confirmed, files,
     sumModule, paste, answers, lastIndex,
     offerChoices, quote >>

moduleVars == << probeAt, fileSizes, totalSize, answers >>
deployVars == << environmentVars, request, result >>
waitVars   == << handlers, stdin, lifecycle >>
scriptVars == << files, sumModule, paste >>
costVars   == << lastIndex, offerChoices, quote >>

RequestKinds == {"probe", "search", "publish", "create", "stop", "delete"}

Modules == SeqRange(ModuleNames)

Running == exitStatus = NotExited

Count(kind) == [ sent EXCEPT ![kind] = @ + 1 ]

Init ==
  /\ pc = "start"
  /\ exitStatus = NotExited
  /\ template = NoTemplate
  /\ probeAt = [ m \in Modules |-> 0 ]
  /\ fileSizes = [ m \in Modules |-> <<>> ]
  /\ totalSize = [ m \in Modules |-> 0 ]
  /\ modules = <<>>
  /\ offers = [ defined |-> FALSE, list |-> <<>> ]
  /\ choice = NoOffer
  /\ diskSizeBytes = 0
  /\ environmentVars = <<>>
  /\ request = NoRequest
  /\ result = NoResult
  /\ handlers = FALSE
  /\ stdin = "paused"
  /\ lifecycle = <<>>
  /\ signals = <<>>
  /\ sent = [ k \in RequestKinds |-> 0 ]
  /\ console = {}
  /\ net = [ k \in {"probe", "search", "publish", "create", "lifecycle"} |-> NoResponse ]
  /\ aborted = "none"
  /\ confirmed = FALSE
  /\ files = [ m \in Modules |-> ModuleFiles(m) ]
  /\ sumModule = NoSum
  /\ paste = <<>>
  /\ answers = [ m \in Modules |-> <<>> ]
  /\ lastIndex = 0
  /\ offerChoices = <<>>
  /\ quote = NoQuote

(***************************************************************************)
(* chooseTemplate                                                          *)
(***************************************************************************)
\* ChooseTemplateArg whose catch leaves with status 0
ChooseTemplateArg_exitZero ==
  /\ Running /\ pc = "start"
  /\ \E exists \in BOOLEAN :
       IF exists
       THEN /\ \E t \in TemplateSet : template' = t
            /\ pc' = "chooseModules"
            /\ UNCHANGED << exitStatus, console >>
       ELSE /\ console' = console \cup {"error: Unable to find template"}
            /\ exitStatus' = 0
            /\ UNCHANGED << pc, template >>
  /\ UNCHANGED scriptVars
  /\ UNCHANGED costVars
  /\ UNCHANGED << moduleVars, modules, offers, choice, diskSizeBytes, deployVars,
                  waitVars, signals, sent, net, aborted, confirmed >>

\* options.template is given: the path is checked and the file is read
ChooseTemplateArg ==
  /\ Running /\ pc = "start"
  /\ \E exists \in BOOLEAN :
       IF exists
       THEN /\ \E t \in TemplateSet : template' = t
            /\ pc' = "chooseModules"
            /\ UNCHANGED << exitStatus, console >>
       ELSE /\ console' = console \cup {"error: Unable to find template"}
            /\ exitStatus' = 1
            /\ UNCHANGED << pc, template >>
  /\ UNCHANGED scriptVars
  /\ UNCHANGED costVars
  /\ UNCHANGED << moduleVars, modules, offers, choice, diskSizeBytes, deployVars,
                  waitVars, signals, sent, net, aborted, confirmed >>

\* options.template is absent: the store is listed and the select prompt opens
TemplatePrompt ==
  /\ Running /\ pc = "start"
  /\ pc' = "selectTemplate"
  /\ UNCHANGED scriptVars
  /\ UNCHANGED costVars
  /\ UNCHANGED << exitStatus, template, moduleVars, modules, offers, choice,
                  diskSizeBytes, deployVars, waitVars, signals, sent, console,
                  net, aborted, confirmed >>

\* the operator picks a listed template, or aborts the prompt
TemplateAnswer ==
  /\ Running /\ pc = "selectTemplate"
  /\ \/ /\ \E t \in TemplateSet : template' = t
        /\ pc' = "chooseModules"
        /\ UNCHANGED << exitStatus, console, aborted >>
     \/ /\ aborted' = "template"
        /\ console' = console \cup {"error: ExitPromptError"}
        /\ exitStatus' = 1
        /\ UNCHANGED << pc, template >>
  /\ UNCHANGED scriptVars
  /\ UNCHANGED costVars
  /\ UNCHANGED << moduleVars, modules, offers, choice, diskSizeBytes, deployVars,
                  waitVars, signals, sent, net, confirmed >>

(***************************************************************************)
(* chooseModules                                                           *)
(***************************************************************************)
\* IsChoice without the comparison of module.template
IsChoice_all(m) == TRUE

\* the modules whose callback does not return [] at once
IsChoice(m) == ModuleTemplate(m) = template.name

ProbeDone(at, m) == at[m] > Len(ModuleUrls(m))

\* the modules offered by the checkbox prompt, in map order
moduleChoices == SelectSeq(ModuleNames, IsChoice)

\* Promise.all has settled: either no choices (return []) or the prompt opens
AfterProbes(at) ==
  IF \A m \in Modules : IsChoice(m) => ProbeDone(at, m)
  THEN IF moduleChoices = <<>> THEN "getOffers" ELSE "checkboxModules"
  ELSE "probing"

\* the map callback runs for every module up to its first await
StartProbes ==
  /\ Running /\ pc = "chooseModules"
  /\ LET at == [ m \in Modules |-> IF IsChoice(m) THEN 1 ELSE 0 ]
         started == { m \in Modules : IsChoice(m) /\ ~ProbeDone(at, m) }
     IN  /\ probeAt' = at
         /\ fileSizes' = [ m \in Modules |-> <<>> ]
         /\ totalSize' = [ m \in Modules |-> 0 ]
         /\ answers' = [ m \in Modules |-> <<>> ]
         /\ sent' = [ sent EXCEPT !["probe"] = @ + Cardinality(started) ]
         /\ pc' = AfterProbes(at)
  /\ UNCHANGED scriptVars
  /\ UNCHANGED costVars
  /\ UNCHANGED << exitStatus, template, modules, offers, choice, diskSizeBytes,
                  deployVars, waitVars, signals, console, net, aborted, confirmed >>

\* getUrlSize: parseInt(res.headers.get('Content-Length') ?? '0', 10)
getUrlSize(url, header) == IF header = "length" THEN UrlLength(url) ELSE 0

\* ProbeRespond with one size cache for all modules: a URL another module
\* has already sized takes that size
ProbeRespond_sharedCache(m) ==
  /\ Running /\ pc = "probing"
  /\ IsChoice(m) /\ ~ProbeDone(probeAt, m)
  /\ LET url == ModuleUrls(m)[probeAt[m]]
     IN  \E outcome \in {"length", "nolength", "reject"} :
           /\ net' = [ net EXCEPT !["probe"] =
                        IF outcome = "reject" THEN Response("reject", "none")
                        ELSE Response("ok", outcome) ]
           /\ IF outcome = "reject"
              THEN /\ console' = console \cup {"error: probe failed"}
                   /\ exitStatus' = 1
                   /\ UNCHANGED << pc, moduleVars, sent >>
              ELSE LET cached == { e \in UNION { SeqRange(fileSizes[n]) : n \in Modules } :
                                    e[1] = url }
                       size == IF cached = {} THEN getUrlSize(url, outcome)
                               ELSE (CHOOSE e \in cached : TRUE)[2]
                       at   == [ probeAt EXCEPT ![m] = @ + 1 ]
                   IN  /\ fileSizes' = [ fileSizes EXCEPT ![m] = MapSet(@, url, size) ]
                       /\ totalSize' = [ totalSize EXCEPT ![m] = @ + size ]
                       /\ answers' = [ answers EXCEPT ![m] = Append(@, outcome) ]
                       /\ probeAt' = at
                       /\ sent' = IF ProbeDone(at, m) THEN sent ELSE Count("probe")
                       /\ pc' = AfterProbes(at)
                       /\ UNCHANGED << exitStatus, console >>
  /\ UNCHANGED scriptVars
  /\ UNCHANGED costVars
  /\ UNCHANGED << template, modules, offers, choice, diskSizeBytes, deployVars,
                  waitVars, signals, aborted, confirmed >>

\* the fetch of module m's current URL settles
ProbeRespond(m) ==
  /\ Running /\ pc = "probing"
  /\ IsChoice(m) /\ ~ProbeDone(probeAt, m)
  /\ LET url == ModuleUrls(m)[probeAt[m]]
     IN  \E outcome \in {"length", "nolength", "reject"} :
           /\ net' = [ net EXCEPT !["probe"] =
                        IF outcome = "reject" THEN Response("reject", "none")
                        ELSE Response("ok", outcome) ]
           /\ IF outcome = "reject"
              THEN \* the rejection leaves Promise.all and is caught by chooseModules
                   /\ console' = console \cup {"error: probe failed"}
                   /\ exitStatus' = 1
                   /\ UNCHANGED << pc, moduleVars, sent >>
              ELSE LET size == getUrlSize(url, outcome)
                       at   == [ probeAt EXCEPT ![m] = @ + 1 ]
                   IN  /\ fileSizes' = [ fileSizes EXCEPT ![m] = MapSet(@, url, size) ]
                       /\ totalSize' = [ totalSize EXCEPT ![m] = @ + size ]
                       /\ answers' = [ answers EXCEPT ![m] = Append(@, outcome) ]
                       /\ probeAt' = at
                       /\ sent' = IF ProbeDone(at, m) THEN sent ELSE Count("probe")
                       /\ pc' = AfterProbes(at)
                       /\ UNCHANGED << exitStatus, console >>
  /\ UNCHANGED scriptVars
  /\ UNCHANGED costVars
  /\ UNCHANGED << template, modules, offers, choice, diskSizeBytes, deployVars,
                  waitVars, signals, aborted, confirmed >>

\* the subsequence of s at the indices in S
SubSeqAt(s, S) == SelectSeq(s, LAMBDA x : \E i \in S : s[i] = x)

\* the operator ticks some modules, or aborts the prompt
ModulesAnswer ==
  /\ Running /\ pc = "checkboxModules"
  /\ \/ /\ \E S \in SUBSET (1..Len(moduleChoices)) :
             modules' = SubSeqAt(moduleChoices, S)
        /\ pc' = "getOffers"
        /\ UNCHANGED << exitStatus, console, aborted >>
     \/ /\ aborted' = "modules"
        /\ console' = console \cup {"error: ExitPromptError"}
        /\ exitStatus' = 1
        /\ UNCHANGED << pc, modules >>
  /\ UNCHANGED scriptVars
  /\ UNCHANGED costVars
  /\ UNCHANGED << template, moduleVars, offers, choice, diskSizeBytes, deployVars,
                  waitVars, signals, sent, net, confirmed >>

(***************************************************************************)
(* getOffers, formatOffers and the offer prompt                            *)
(***************************************************************************)
\* the search request is issued
SendSearch ==
  /\ Running /\ pc = "getOffers"
  /\ sent' = Count("search")
  /\ pc' = "awaitSearch"
  /\ UNCHANGED scriptVars
  /\ UNCHANGED costVars
  /\ UNCHANGED << exitStatus, template, moduleVars, modules, offers, choice,
                  diskSizeBytes, deployVars, waitVars, signals, console, net,
                  aborted, confirmed >>

\* the offers field of a parsed search body
OffersOf(body) ==
  CASE body = "offers"      -> [ defined |-> TRUE, list |-> CatalogOffers ]
    [] body = "emptyOffers" -> [ defined |-> TRUE, list |-> <<>> ]
    [] OTHER                -> [ defined |-> FALSE, list |-> <<>> ]

\* the search settles; getOffers returns and formatOffers builds the choices
RecvSearch ==
  /\ Running /\ pc = "awaitSearch"
  /\ \E r \in SearchResponses :
       /\ net' = [ net EXCEPT !["search"] = r ]
       /\ IF r.status = "reject" \/ r.body \in {"nonjson", "null"}
          THEN \* thrown inside getOffers: caught there
               /\ console' = console \cup {"error: search failed"}
               /\ exitStatus' = 1
               /\ UNCHANGED << pc, offers >>
               /\ UNCHANGED << lastIndex, offerChoices >>
          ELSE /\ offers' = OffersOf(r.body)
               /\ IF ~offers'.defined
                  THEN \* offers.reduce on undefined: caught by provision
                       /\ console' = console \cup {"error: TypeError"}
                       /\ exitStatus' = 0
                       /\ pc' = pc
                       /\ UNCHANGED << lastIndex, offerChoices >>
                  ELSE LET run == formatOffersRun(MaxHourlyCost, offers'.list, lastIndex)
                       IN  /\ offerChoices' = Append(offerChoices, run.choices)
                           /\ lastIndex' = run.lastIndex
                           /\ IF run.choices = <<>>
                              THEN \* select rejects a prompt without choices
                                   /\ console' = console \cup {"error: no selectable choices"}
                                   /\ exitStatus' = 0
                                   /\ pc' = pc
                              ELSE /\ pc' = "selectOffer"
                                   /\ UNCHANGED << exitStatus, console >>
  /\ UNCHANGED scriptVars
  /\ UNCHANGED quote
  /\ UNCHANGED << template, moduleVars, modules, choice, diskSizeBytes,
                  deployVars, waitVars, signals, sent, aborted, confirmed >>

\* the operator picks an offer, or aborts the prompt
OfferAnswer ==
  /\ Running /\ pc = "selectOffer"
  /\ \/ /\ \E c \in SeqRange(offerChoices[Len(offerChoices)]) :
             choice' = c.value
        /\ diskSizeBytes' = DiskSize(template, modules, fileSizes)
        /\ quote' = Quote(choice', diskSizeBytes')
        /\ pc' = "confirm"
        /\ UNCHANGED << exitStatus, console, aborted >>
     \/ /\ aborted' = "offer"
        /\ console' = console \cup {"log: User requested cancellation"}
        /\ exitStatus' = 0
        /\ UNCHANGED << pc, choice, diskSizeBytes, quote >>
  /\ UNCHANGED scriptVars
  /\ UNCHANGED << lastIndex, offerChoices >>
  /\ UNCHANGED << template, moduleVars, modules, offers, deployVars, waitVars,
                  signals, sent, net, confirmed >>

\* ConfirmAnswer without the return after a declined confirmation
ConfirmAnswer_noReturn ==
  /\ Running /\ pc = "confirm"
  /\ \/ /\ confirmed' = TRUE
        /\ environmentVars' = template.environment
        /\ pc' = "deploy"
        /\ UNCHANGED << exitStatus, console, aborted >>
     \/ /\ console' = console \cup {"log: user declined to deploy"}
        /\ environmentVars' = template.environment
        /\ pc' = "deploy"
        /\ UNCHANGED << exitStatus, aborted, confirmed >>
     \/ /\ aborted' = "confirm"
        /\ console' = console \cup {"log: User requested cancellation"}
        /\ exitStatus' = 0
        /\ UNCHANGED << pc, environmentVars, confirmed >>
  /\ UNCHANGED scriptVars
  /\ UNCHANGED costVars
  /\ UNCHANGED << template, moduleVars, modules, offers, choice, diskSizeBytes,
                  request, result, waitVars, signals, sent, net >>

\* the operator answers the confirmation, or aborts it
ConfirmAnswer ==
  /\ Running /\ pc = "confirm"
  /\ \/ /\ confirmed' = TRUE
        /\ environmentVars' = template.environment
        /\ pc' = "deploy"
        /\ UNCHANGED << exitStatus, console, aborted >>
     \/ /\ console' = console \cup {"log: user declined to deploy"}
        /\ exitStatus' = 0
        /\ UNCHANGED << pc, environmentVars, aborted, confirmed >>
     \/ /\ aborted' = "confirm"
        /\ console' = console \cup {"log: User requested cancellation"}
        /\ exitStatus' = 0
        /\ UNCHANGED << pc, environmentVars, confirmed >>
  /\ UNCHANGED scriptVars
  /\ UNCHANGED costVars
  /\ UNCHANGED << template, moduleVars, modules, offers, choice, diskSizeBytes,
                  request, result, waitVars, signals, sent, net >>

(***************************************************************************)
(* getScriptUrl                                                            *)
(***************************************************************************)
\* the script file is looked up, filled in and posted to the paste service
SendPublish ==
  /\ Running /\ pc = "deploy" /\ Truthy(template.script)
  /\ \E exists \in BOOLEAN :
       IF exists
       THEN /\ sumModule' = SumOf(template, modules, files)
            /\ paste' = PasteCode(template, modules, files)
            /\ sent' = Count("publish")
            /\ pc' = "awaitPublish"
            /\ UNCHANGED << exitStatus, console >>
       ELSE /\ console' = console \cup {"error: Could not find script"}
            /\ exitStatus' = 1
            /\ UNCHANGED << pc, sent, sumModule, paste >>
  /\ UNCHANGED files
  /\ UNCHANGED costVars
  /\ UNCHANGED << template, moduleVars, modules, offers, choice, diskSizeBytes,
                  deployVars, waitVars, signals, net, aborted, confirmed >>

\* result.text() of a paste answer
PasteText(body) == IF body = "url" THEN PasteUrlBody ELSE PasteErrorBody

\* RecvPublish that starts getScriptUrl again when the call is rejected
RecvPublish_retry ==
  /\ Running /\ pc = "awaitPublish"
  /\ \E r \in PublishResponses :
       /\ net' = [ net EXCEPT !["publish"] = r ]
       /\ IF r.status = "reject"
          THEN /\ console' = console \cup {"error: publish failed"}
               /\ pc' = "deploy"
               /\ UNCHANGED << exitStatus, environmentVars >>
          ELSE /\ environmentVars' =
                    MapSet(environmentVars, "PROVISIONER_SCRIPT", RawUrl(PasteText(r.body)))
               /\ pc' = "buildRequest"
               /\ UNCHANGED << exitStatus, console >>
  /\ UNCHANGED scriptVars
  /\ UNCHANGED costVars
  /\ UNCHANGED << template, moduleVars, modules, offers, choice, diskSizeBytes,
                  request, result, waitVars, signals, sent, aborted, confirmed >>

\* the publish call settles
RecvPublish ==
  /\ Running /\ pc = "awaitPublish"
  /\ \E r \in PublishResponses :
       /\ net' = [ net EXCEPT !["publish"] = r ]
       /\ IF r.status = "reject"
          THEN /\ console' = console \cup {"error: publish failed"}
               /\ exitStatus' = 1
               /\ UNCHANGED << pc, environmentVars >>
          ELSE /\ environmentVars' =
                    MapSet(environmentVars, "PROVISIONER_SCRIPT", RawUrl(PasteText(r.body)))
               /\ pc' = "buildRequest"
               /\ UNCHANGED << exitStatus, console >>
  /\ UNCHANGED scriptVars
  /\ UNCHANGED costVars
  /\ UNCHANGED << template, moduleVars, modules, offers, choice, diskSizeBytes,
                  request, result, waitVars, signals, sent, aborted, confirmed >>

(***************************************************************************)
(* The create call and the registration of the signal handlers             *)
(***************************************************************************)
\* the request is built and the create call is issued
SendCreate ==
  /\ Running
  /\ \/ pc = "buildRequest"
     \/ pc = "deploy" /\ ~Truthy(template.script)
  /\ request' = BuildRequest(template, environmentVars, diskSizeBytes)
  /\ sent' = Count("create")
  /\ pc' = "awaitCreate"
  /\ UNCHANGED scriptVars
  /\ UNCHANGED costVars
  /\ UNCHANGED << exitStatus, template, moduleVars, modules, offers, choice,
                  diskSizeBytes, environmentVars, result, waitVars, signals,
                  console, net, aborted, confirmed >>

\* RecvCreate that leaves the process when the creation is not a success
\* instead of going on to the registration of the handlers
RecvCreate_exitOnFailure ==
  /\ Running /\ pc = "awaitCreate"
  /\ \E r \in CreateResponses :
       /\ net' = [ net EXCEPT !["create"] = r ]
       /\ IF r.status = "reject" \/ r.body \in {"nonjson", "null"}
          THEN /\ console' = console \cup {"error: create failed"}
               /\ exitStatus' = 0
               /\ UNCHANGED << pc, result, handlers, stdin >>
          ELSE /\ result' = CreateObject(r.body)
               /\ IF IsSuccess(result')
                  THEN /\ console' = console \cup {"log: Instance created"}
                       /\ stdin' = "flowing"
                       /\ handlers' = TRUE
                       /\ pc' = "waiting"
                       /\ UNCHANGED exitStatus
                  ELSE /\ console' = console \cup {"log: Failed to create instance"}
                       /\ exitStatus' = 1
                       /\ UNCHANGED << pc, handlers, stdin >>
  /\ UNCHANGED scriptVars
  /\ UNCHANGED costVars
  /\ UNCHANGED << template, moduleVars, modules, offers, choice, diskSizeBytes,
                  environmentVars, request, lifecycle, signals, sent, aborted,
                  confirmed >>

\* the create call settles; on a parsed object the handlers are registered
RecvCreate ==
  /\ Running /\ pc = "awaitCreate"
  /\ \E r \in CreateResponses :
       /\ net' = [ net EXCEPT !["create"] = r ]
       /\ IF r.status = "reject" \/ r.body \in {"nonjson", "null"}
          THEN \* thrown in provision's try: logged, provision returns and
               \* nothing keeps the process open
               /\ console' = console \cup {"error: create failed"}
               /\ exitStatus' = 0
               /\ UNCHANGED << pc, result, handlers, stdin >>
          ELSE /\ result' = CreateObject(r.body)
               /\ console' = console \cup
                    { IF IsSuccess(result') THEN "log: Instance created"
                      ELSE "log: Failed to create instance" }
               /\ stdin' = "flowing"
               /\ handlers' = TRUE
               /\ pc' = "waiting"
               /\ UNCHANGED exitStatus
  /\ UNCHANGED scriptVars
  /\ UNCHANGED costVars
  /\ UNCHANGED << template, moduleVars, modules, offers, choice, diskSizeBytes,
                  environmentVars, request, lifecycle, signals, sent, aborted,
                  confirmed >>

(***************************************************************************)
(* Signals, the two handlers, and the end of standard input                *)
(***************************************************************************)
Signals == {"SIGQUIT", "SIGINT"}

\* RequestOf with the two handlers exchanged
RequestOf_swapped(sig) == IF sig = "SIGQUIT" THEN "delete" ELSE "stop"

\* the request a handler issues
RequestOf(sig) == IF sig = "SIGQUIT" THEN "stop" ELSE "delete"

SigNum(sig) == IF sig = "SIGQUIT" THEN 3 ELSE 2

\* Signal without the guard on result.new_contract: the request is issued
\* even when no lease identifier is held
Signal_noGuard(sig) ==
  /\ Running /\ handlers
  /\ Len(signals) < MaxSignals
  /\ signals' = Append(signals, sig)
  /\ lifecycle' = Append(lifecycle,
        [ kind |-> RequestOf(sig),
          id   |-> IF HasContract(result) THEN result.new_contract ELSE 0 ])
  /\ sent' = Count(RequestOf(sig))
  /\ UNCHANGED << exitStatus, console >>
  /\ UNCHANGED scriptVars
  /\ UNCHANGED costVars
  /\ UNCHANGED << pc, template, moduleVars, modules, offers, choice,
                  diskSizeBytes, deployVars, handlers, stdin, net, aborted,
                  confirmed >>

\* a signal arrives while its listener is registered: the handler runs up to
\* its await
Signal(sig) ==
  /\ Running /\ handlers
  /\ Len(signals) < MaxSignals
  /\ signals' = Append(signals, sig)
  /\ IF ~HasContract(result)
     THEN /\ console' = console \cup {"error: No instance"}
          /\ exitStatus' = 0
          /\ UNCHANGED << lifecycle, sent >>
     ELSE /\ lifecycle' = Append(lifecycle,
                 [ kind |-> RequestOf(sig), id |-> result.new_contract ])
          /\ sent' = Count(RequestOf(sig))
          /\ UNCHANGED << exitStatus, console >>
  /\ UNCHANGED scriptVars
  /\ UNCHANGED costVars
  /\ UNCHANGED << pc, template, moduleVars, modules, offers, choice,
                  diskSizeBytes, deployVars, handlers, stdin, net, aborted,
                  confirmed >>

\* the fetch of the i-th handler invocation settles and the handler exits
LifecycleRespond(i) ==
  /\ Running /\ i \in 1..Len(lifecycle)
  /\ \E r \in LifecycleResponses :
       /\ net' = [ net EXCEPT !["lifecycle"] = [ r EXCEPT !.body = lifecycle[i].kind ] ]
       /\ IF r.status = "reject"
          THEN /\ console' = console \cup {"error: lifecycle call failed"}
               /\ exitStatus' = 1
          ELSE /\ console' = console \cup {"log: Instance " \o lifecycle[i].kind}
               /\ exitStatus' = 0
  /\ UNCHANGED scriptVars
  /\ UNCHANGED costVars
  /\ UNCHANGED << pc, template, moduleVars, modules, offers, choice,
                  diskSizeBytes, deployVars, waitVars, signals, sent, aborted,
                  confirmed >>

\* a signal arrives while no listener is registered: the default disposition
\* ends the process
SignalDefault(sig) ==
  /\ Running /\ ~handlers
  /\ Len(signals) < MaxSignals
  /\ signals' = Append(signals, sig)
  /\ exitStatus' = 128 + SigNum(sig)
  /\ UNCHANGED scriptVars
  /\ UNCHANGED costVars
  /\ UNCHANGED << pc, template, moduleVars, modules, offers, choice,
                  diskSizeBytes, deployVars, waitVars, sent, console, net,
                  aborted, confirmed >>

\* standard input reaches its end: it no longer keeps the process open
StdinEnd ==
  /\ Running /\ stdin = "flowing"
  /\ stdin' = "ended"
  /\ exitStatus' = IF lifecycle = <<>> THEN 0 ELSE exitStatus
  /\ UNCHANGED scriptVars
  /\ UNCHANGED costVars
  /\ UNCHANGED << pc, template, moduleVars, modules, offers, choice,
                  diskSizeBytes, deployVars, handlers, lifecycle, signals, sent,
                  console, net, aborted, confirmed >>

Next ==
  \/ ChooseTemplateArg
  \/ TemplatePrompt
  \/ TemplateAnswer
  \/ StartProbes
  \/ \E m \in Modules : ProbeRespond(m)
  \/ ModulesAnswer
  \/ SendSearch
  \/ RecvSearch
  \/ OfferAnswer
  \/ ConfirmAnswer
  \/ SendPublish
  \/ RecvPublish
  \/ SendCreate
  \/ RecvCreate
  \/ \E sig \in Signals : Signal(sig)
  \/ \E i \in 1..MaxSignals : LifecycleRespond(i)
  \/ \E sig \in Signals : SignalDefault(sig)
  \/ StdinEnd

Spec == Init /\ [][Next]_vars

(***************************************************************************)
(* The disk sizing of provision on its own: a template base size, the      *)
(* size maps the probes left on the template's modules, and a selection.   *)
(***************************************************************************)
BaseSizes == 0..MaxBase

ProbeSizes == 0..MaxLength

\* the selections the checkbox can return: sublists of the choices
Selections(choices) ==
  { SubSeqAt(choices, S) : S \in SUBSET (1..Len(choices)) }

\* the size maps the probes of module m can leave
SizeMaps(m) ==
  LET urls == ModuleUrls(m)
  IN  { [ i \in 1..Len(urls) |-> <<urls[i], f[i]>> ] :
          f \in [ 1..Len(urls) -> ProbeSizes ] }

ComfyModules == SelectSeq(ModuleNames, LAMBDA m : ModuleTemplate(m) = TemplateName)

InitSizing ==
  /\ pc = "sizing"
  /\ exitStatus = NotExited
  /\ \E t \in TemplateSet, b \in BaseSizes :
       /\ t.name = TemplateName /\ t.hash # undefined /\ t.tag = undefined
       /\ t.script = undefined
       /\ template = [ t EXCEPT !.size = b ]
  /\ probeAt = [ m \in Modules |->
                  IF ModuleTemplate(m) = TemplateName THEN Len(ModuleUrls(m)) + 1 ELSE 0 ]
  /\ fileSizes \in [ Modules -> UNION { SizeMaps(m) : m \in Modules } \cup {<<>>} ]
  /\ \A m \in Modules :
       fileSizes[m] \in (IF ModuleTemplate(m) = TemplateName THEN SizeMaps(m) ELSE {<<>>})
  /\ totalSize = [ m \in Modules |-> 0 ]
  /\ modules \in Selections(ComfyModules)
  /\ offers = [ defined |-> TRUE, list |-> CatalogOffers ]
  /\ choice = CatalogOffers[3]
  /\ diskSizeBytes = 0
  /\ environmentVars = <<>>
  /\ request = NoRequest
  /\ result = NoResult
  /\ handlers = FALSE
  /\ stdin = "paused"
  /\ lifecycle = <<>>
  /\ signals = <<>>
  /\ sent = [ k \in RequestKinds |-> 0 ]
  /\ console = {}
  /\ net = [ k \in {"probe", "search", "publish", "create", "lifecycle"} |-> NoResponse ]
  /\ aborted = "none"
  /\ confirmed = FALSE
  /\ files = [ m \in Modules |-> ModuleFiles(m) ]
  /\ sumModule = NoSum
  /\ paste = <<>>
  /\ answers = [ m \in Modules |-> [ i \in 1..Len(fileSizes[m]) |-> "length" ] ]
  /\ lastIndex = 0
  /\ offerChoices = <<>>
  /\ quote = NoQuote

\* lines 892-911 of provision
SizeDisk ==
  /\ pc = "sizing"
  /\ diskSizeBytes' = DiskSize(template, modules, fileSizes)
  /\ pc' = "sized"
  /\ UNCHANGED scriptVars
  /\ UNCHANGED costVars
  /\ UNCHANGED << exitStatus, template, moduleVars, modules, offers, choice,
                  deployVars, waitVars, signals, sent, console, net, aborted,
                  confirmed >>

NextSizing == SizeDisk

SpecSizing == InitSizing /\ [][NextSizing]_vars

(***************************************************************************)
(* The script specification: getScriptUrl up to the paste form, applied to *)
(* drawn templates, module files and selections.                           *)
(***************************************************************************)
\* the lists a module can declare for the key "nodes"
NodeLists == UNION { [ 1..k -> {"X", "Y"} ] : k \in 0..MaxUrls }

\* module.files as drawn: either key may be absent
FileSets ==
  { nodes \o models :
      nodes \in {<<>>} \cup { << <<"nodes", l>> >> : l \in NodeLists },
      models \in { <<>>, << <<"models", <<"Y">> >> >> } }

FileTypeSets == { <<>>, <<"nodes">>, <<"nodes", "models">> }

ScriptNames == { "comfy.sh", "twice.sh" }

InitScript ==
  /\ pc = "scripting"
  /\ exitStatus = NotExited
  /\ \E t \in TemplateSet, ft \in FileTypeSets, sc \in ScriptNames :
       /\ t.name = TemplateName /\ t.hash # undefined /\ t.tag = undefined
       /\ t.script # undefined
       /\ template = [ t EXCEPT !.fileTypes = ft, !.script = sc ]
  /\ probeAt = [ m \in Modules |-> 0 ]
  /\ fileSizes = [ m \in Modules |-> <<>> ]
  /\ totalSize = [ m \in Modules |-> 0 ]
  /\ modules \in Selections(ComfyModules)
  /\ offers = [ defined |-> TRUE, list |-> CatalogOffers ]
  /\ choice = CatalogOffers[3]
  /\ diskSizeBytes = 0
  /\ environmentVars = <<>>
  /\ request = NoRequest
  /\ result = NoResult
  /\ handlers = FALSE
  /\ stdin = "paused"
  /\ lifecycle = <<>>
  /\ signals = <<>>
  /\ sent = [ k \in RequestKinds |-> 0 ]
  /\ console = {}
  /\ net = [ k \in {"probe", "search", "publish", "create", "lifecycle"} |-> NoResponse ]
  /\ aborted = "none"
  /\ confirmed = FALSE
  /\ files \in [ Modules -> FileSets \cup { ModuleFiles(m) : m \in Modules } ]
  /\ \A m \in Modules :
       files[m] \in (IF ModuleTemplate(m) = TemplateName
                     THEN FileSets ELSE {ModuleFiles(m)})
  /\ sumModule = NoSum
  /\ paste = <<>>
  /\ answers = [ m \in Modules |-> <<>> ]
  /\ lastIndex = 0
  /\ offerChoices = <<>>
  /\ quote = NoQuote

\* lines 781-814 of getScriptUrl
BuildPaste ==
  /\ pc = "scripting"
  /\ sumModule' = SumOf(template, modules, files)
  /\ paste' = PasteCode(template, modules, files)
  /\ pc' = "scripted"
  /\ UNCHANGED files
  /\ UNCHANGED costVars
  /\ UNCHANGED << exitStatus, template, moduleVars, modules, offers, choice,
                  diskSizeBytes, deployVars, waitVars, signals, sent, console,
                  net, aborted, confirmed >>

NextScript == BuildPaste

SpecScript == InitScript /\ [][NextScript]_vars

(***************************************************************************)
(* The filter specification: formatOffers called MaxRuns times on one      *)
(* offer list, every sublist of a pool in the server's order.              *)
(***************************************************************************)
\* the catalog and one more offer at the price of another
OfferPool ==
  << CatalogOffers[1], CatalogOffers[2], CatalogOffers[3],
     MkOffer(6, Chars_RTX4090, 3600, 404, 4004),
     CatalogOffers[4], CatalogOffers[5] >>

InitFilter ==
  /\ pc = "filtering"
  /\ exitStatus = NotExited
  /\ template \in { t \in TemplateSet :
                      /\ t.name = TemplateName /\ t.hash # undefined
                      /\ t.tag = undefined /\ t.script = undefined }
  /\ probeAt = [ m \in Modules |-> 0 ]
  /\ fileSizes = [ m \in Modules |-> <<>> ]
  /\ totalSize = [ m \in Modules |-> 0 ]
  /\ modules = <<>>
  /\ offers \in { [ defined |-> TRUE, list |-> l ] : l \in Selections(OfferPool) }
  /\ choice = NoOffer
  /\ diskSizeBytes = 0
  /\ environmentVars = <<>>
  /\ request = NoRequest
  /\ result = NoResult
  /\ handlers = FALSE
  /\ stdin = "paused"
  /\ lifecycle = <<>>
  /\ signals = <<>>
  /\ sent = [ k \in RequestKinds |-> IF k = "search" THEN 1 ELSE 0 ]
  /\ console = {}
  /\ net = [ k \in {"probe", "search", "publish", "create", "lifecycle"} |->
              IF k = "search" THEN Response("ok", "offers") ELSE NoResponse ]
  /\ aborted = "none"
  /\ confirmed = FALSE
  /\ files = [ m \in Modules |-> ModuleFiles(m) ]
  /\ sumModule = NoSum
  /\ paste = <<>>
  /\ answers = [ m \in Modules |-> <<>> ]
  /\ lastIndex = 0
  /\ offerChoices = <<>>
  /\ quote = NoQuote

\* one call of formatOffers(options, offers)
FormatOffersCall ==
  /\ pc = "filtering" /\ Len(offerChoices) < MaxRuns
  /\ LET run == formatOffersRun(MaxHourlyCost, offers.list, lastIndex)
     IN  /\ offerChoices' = Append(offerChoices, run.choices)
         /\ lastIndex' = run.lastIndex
  /\ UNCHANGED << scriptVars, quote >>
  /\ UNCHANGED << pc, exitStatus, template, moduleVars, modules, offers, choice,
                  diskSizeBytes, deployVars, waitVars, signals, sent, console,
                  net, aborted, confirmed >>

NextFilter == FormatOffersCall

SpecFilter == InitFilter /\ [][NextFilter]_vars

(***************************************************************************)
(* The cost specification: the cost figures of the confirmation message    *)
(* for drawn prices and disk sizes.                                        *)
(***************************************************************************)
GpuPrices == { 3000 + k : k \in 0..MaxPriceStep }

DiskRates == { 500 + k : k \in 0..MaxPriceStep }

DiskSizes == { gb * Giga : gb \in 0..MaxDiskGb }

InitCost ==
  /\ pc = "costing"
  /\ exitStatus = NotExited
  /\ template \in { t \in TemplateSet :
                      /\ t.name = TemplateName /\ t.hash # undefined
                      /\ t.tag = undefined /\ t.script = undefined }
  /\ probeAt = [ m \in Modules |-> 0 ]
  /\ fileSizes = [ m \in Modules |-> <<>> ]
  /\ totalSize = [ m \in Modules |-> 0 ]
  /\ modules = <<>>
  /\ \E g \in GpuPrices, d \in DiskRates :
       /\ choice = MkOffer(2, Chars_RTX4090, g, d, g + d)
       /\ offers = [ defined |-> TRUE, list |-> <<choice>> ]
       /\ offerChoices = << formatOffersRun(MaxHourlyCost, offers.list, 0).choices >>
  /\ diskSizeBytes \in DiskSizes
  /\ environmentVars = <<>>
  /\ request = NoRequest
  /\ result = NoResult
  /\ handlers = FALSE
  /\ stdin = "paused"
  /\ lifecycle = <<>>
  /\ signals = <<>>
  /\ sent = [ k \in RequestKinds |-> IF k = "search" THEN 1 ELSE 0 ]
  /\ console = {}
  /\ net = [ k \in {"probe", "search", "publish", "create", "lifecycle"} |->
              IF k = "search" THEN Response("ok", "offers") ELSE NoResponse ]
  /\ aborted = "none"
  /\ confirmed = FALSE
  /\ files = [ m \in Modules |-> ModuleFiles(m) ]
  /\ sumModule = NoSum
  /\ paste = <<>>
  /\ answers = [ m \in Modules |-> <<>> ]
  /\ lastIndex = 0
  /\ quote = NoQuote

\* lines 913-915 of provision
QuoteCost ==
  /\ pc = "costing"
  /\ quote' = Quote(choice, diskSizeBytes)
  /\ pc' = "costed"
  /\ UNCHANGED << scriptVars, lastIndex, offerChoices >>
  /\ UNCHANGED << exitStatus, template, moduleVars, modules, offers, choice,
                  diskSizeBytes, deployVars, waitVars, signals, sent, console,
                  net, aborted, confirmed >>

NextCost == QuoteCost

SpecCost == InitCost /\ [][NextCost]_vars

(***************************************************************************)
(* Properties.                                                             *)
(***************************************************************************)
Exited == exitStatus # NotExited

LifecycleSent == sent["stop"] + sent["delete"]

\* the create response carries no new_contract field
NoLeaseHeld == "new_contract" \notin DOMAIN result

\* C1: once a lease identifier is held, whatever signals are delivered, at
\* most one stop/delete request is issued in total, and it is the one of the
\* first signal received.
C1_AtMostOneLifecycleRequest ==
  HasContract(result) =>
    /\ LifecycleSent <= 1
    /\ Len(lifecycle) <= 1
    /\ lifecycle # <<>> => lifecycle[1].kind = RequestOf(signals[1])

\* C2: whenever the stop or destroy handler runs while the create response
\* has no new_contract, the handler issues no request of any kind and the
\* process exits with status 0.
C2_NoLeaseHandlerIsNoop ==
  [][ (handlers /\ Running /\ NoLeaseHeld /\ signals' # signals) =>
        (sent' = sent /\ lifecycle' = lifecycle /\ exitStatus' = 0) ]_vars

\* a handler has run without a lease identifier and the process is gone
C2_Witness ==
  handlers /\ NoLeaseHeld /\ signals # <<>> /\ exitStatus = 0 /\ LifecycleSent = 0

\* C3: with a lease identifier held, the handler's exit status is 0 exactly
\* when the update/delete call succeeded, and 1 when it failed by a network
\* error or by a non-success answer of the marketplace.
C3_ExitStatusReflectsLifecycleCall ==
  (Exited /\ net["lifecycle"].status # "none") =>
    /\ net["lifecycle"].status = "ok" => exitStatus = 0
    /\ net["lifecycle"].status \in {"reject", "error"} => exitStatus = 1

CreateAnswered == net["create"].status # "none"

\* the create call threw inside provision: rejected fetch, unparseable body,
\* or a body that parses to null
CreateThrew ==
  net["create"].status = "reject" \/ net["create"].body \in {"nonjson", "null"}

\* the body parsed to an object that does not report a created lease
CreateRefused == net["create"].body \in {"failed", "noFields"}

\* the lifecycle-wait phase was entered and nothing but an operator signal
\* (or the end of standard input) ended it, without any lifecycle request
WaitsAndNoops ==
  /\ handlers /\ pc = "waiting" /\ stdin # "paused"
  /\ lifecycle = <<>> /\ LifecycleSent = 0
  /\ Exited => exitStatus = 0 /\ (signals # <<>> \/ stdin = "ended")
  /\ signals # <<>> => exitStatus = 0

\* C4 as stated: after every failed create call (success=false, malformed or
\* unparseable response, failed request) the process registers both handlers
\* and waits, and a later signal finds no lease, issues nothing and exits 0.
C4_EveryCreateFailureWaits ==
  (CreateAnswered /\ (CreateThrew \/ CreateRefused)) => WaitsAndNoops

\* C4 amended: that holds when the body parses to an object without success
\* and without new_contract; when the request fails or the body does not
\* parse to an object, the error is logged, no handler is registered, no
\* lifecycle request is issued and the run ends with status 0.
C4_CreateFailure ==
  /\ CreateRefused => WaitsAndNoops
  /\ CreateThrew =>
       /\ ~handlers /\ stdin = "paused" /\ result = NoResult
       /\ "error: create failed" \in console
       /\ LifecycleSent = 0
       /\ exitStatus = 0

\* a refused creation, then a signal that found nothing to stop or destroy
C4_Witness ==
  /\ CreateRefused /\ "log: Failed to create instance" \in console
  /\ handlers /\ signals # <<>> /\ exitStatus = 0

\* C5: an aborted prompt (template, modules, offer, confirmation) ends the
\* process with status 0 and without any publish, create, stop or delete
\* request.
C5_AbortIsCleanExit ==
  aborted # "none" =>
    /\ exitStatus = 0
    /\ sent["publish"] = 0 /\ sent["create"] = 0 /\ LifecycleSent = 0

\* C6: a failed size probe is logged and is not fatal: the process does not
\* exit because of it.
C6_ProbeFailureIsNotFatal ==
  net["probe"].status = "reject" =>
    /\ "error: probe failed" \in console
    /\ ~(pc = "probing" /\ exitStatus = 1)

\* C7: when the publish call fails (network error or non-success answer) the
\* failure is reported, the process exits nonzero and no create request is
\* sent; the error body never becomes the script reference.
C7_PublishFailureStopsDeploy ==
  net["publish"].status \in {"reject", "error"} =>
    /\ "error: publish failed" \in console
    /\ exitStatus = 1
    /\ sent["create"] = 0
    /\ ~MapHas(environmentVars, "PROVISIONER_SCRIPT")

\* C8: every failure of the search (network error, non-success answer, body
\* without an offers list) is reported and ends the process with a nonzero
\* status, with no create request sent.
C8_SearchFailureIsFatal ==
  (net["search"].status \in {"reject", "error"}
     \/ net["search"].body \in {"noOffers", "nonjson", "null"}) =>
    /\ \E msg \in {"error: search failed", "error: TypeError"} : msg \in console
    /\ Exited /\ exitStatus # 0
    /\ sent["create"] = 0

\* the template declares neither or both of hash and tag
BadImageSelection(t) == Truthy(t.hash) <=> Truthy(t.tag)

\* C9: a template declaring neither or both of hash and tag is rejected: no
\* network request is issued for it and the process exits nonzero.
C9_BadTemplateRejected ==
  (template # NoTemplate /\ BadImageSelection(template)) =>
    /\ \A k \in RequestKinds : sent[k] = 0
    /\ exitStatus # 0

\* C10: every create request carries exactly one of template_hash_id and
\* image.
C10_ExactlyOneBootReference ==
  sent["create"] > 0 =>
    ("template_hash_id" \in DOMAIN request) # ("image" \in DOMAIN request)

\* C11: when the template file named by the operator does not exist, the
\* error is reported, the process exits with a nonzero status and no network
\* request has been issued.
C11_MissingTemplateIsFatal ==
  "error: Unable to find template" \in console =>
    /\ exitStatus = 1
    /\ \A k \in RequestKinds : sent[k] = 0

\* the named template file was looked up and not found
C11_Witness ==
  /\ "error: Unable to find template" \in console
  /\ Exited /\ pc = "start" /\ template = NoTemplate

\* module m belongs to another template than the one being resolved
ForeignModule(m) == ModuleTemplate(m) # template.name

ModulesResolved == pc \notin {"start", "selectTemplate", "chooseModules"}

MapGet(map, k) == (CHOOSE e \in SeqRange(map) : e[1] = k)[2]

\* the distinct resource URLs of the selected modules
SelectedUrls ==
  UNION { { e[1] : e \in SeqRange(fileSizes[m]) } : m \in SeqRange(modules) }

\* the size the first selected module that references url has recorded
FirstSize(url) ==
  LET i == CHOOSE i \in 1..Len(modules) :
             /\ MapHas(fileSizes[modules[i]], url)
             /\ \A k \in 1..(i - 1) : ~MapHas(fileSizes[modules[k]], url)
  IN  MapGet(fileSizes[modules[i]], url)

RECURSIVE SumFirstSizes(_)
SumFirstSizes(urls) ==
  IF urls = {} THEN 0
  ELSE LET u == CHOOSE u \in urls : TRUE
       IN  FirstSize(u) + SumFirstSizes(urls \ {u})

\* the disk size has been computed
Sized ==
  pc \in {"sized", "confirm", "deploy", "awaitPublish", "buildRequest",
          "awaitCreate", "waiting"}

\* C13: the resolved disk size is the smallest multiple of 1e9 bytes that is
\* >= template base size + the sum over the distinct URLs of the selected
\* modules of the URL's probed size; a URL shared by modules counts once.
C13_DiskSizeIsCeilOfDistinctSum ==
  Sized =>
    LET raw == template.size + SumFirstSizes(SelectedUrls)
    IN  /\ diskSizeBytes % Giga = 0
        /\ diskSizeBytes >= raw
        /\ diskSizeBytes - Giga < raw

\* two selected modules share a URL of nonzero size and the sum is rounded up
C13_Witness ==
  /\ pc = "sized" /\ Len(modules) = 2
  /\ \E u \in SelectedUrls :
       /\ \A m \in SeqRange(modules) : MapHas(fileSizes[m], u)
       /\ FirstSize(u) > 0
  /\ (template.size + SumFirstSizes(SelectedUrls)) % Giga # 0
  /\ diskSizeBytes > template.size + SumFirstSizes(SelectedUrls)

\* every probe has settled
ProbesSettled == ModulesResolved /\ pc # "probing"

\* C14: the resolved disk size is always a multiple of 1e9 bytes and adding
\* modules to a selection never decreases it.
C14_DiskSizeWholeAndMonotone ==
  ProbesSettled =>
    \A S1, S2 \in Selections(moduleChoices) :
      LET d1 == DiskSize(template, S1, fileSizes)
          d2 == DiskSize(template, S2, fileSizes)
      IN  /\ d1 % Giga = 0
          /\ SeqRange(S1) \subseteq SeqRange(S2) => d1 <= d2

\* the paste form has been built from the script
PasteBuilt == pc = "scripted" \/ sent["publish"] > 0

\* the placeholder of category key is still in the published script
LeftLiteral(key) == Placeholder(key) \in SeqRange(paste)

\* C15: for a template with a script and an empty module selection, the
\* published script holds no literal placeholder of a category the template
\* declares.
C15_EmptySelectionResolvesPlaceholders ==
  (PasteBuilt /\ modules = <<>>) =>
    \A key \in SeqRange(template.fileTypes) : ~LeftLiteral(key)

\* no selected module declares a URL for the category
NoContribution(key) ==
  \A i \in 1..Len(modules) : FilesGet(files[modules[i]], key) = <<>>

\* C16: for a non-empty module selection, the placeholder of a declared
\* category to which no selected module contributes a URL is not left in the
\* published script.
C16_EmptyCategoryPlaceholderRemoved ==
  (PasteBuilt /\ modules # <<>>) =>
    \A key \in SeqRange(template.fileTypes) :
      NoContribution(key) => ~LeftLiteral(key)

\* C17: for a category whose merged list is not empty, no occurrence of its
\* placeholder remains in the published script.
C17_EveryOccurrenceReplaced ==
  (PasteBuilt /\ sumModule # NoSum) =>
    \A key \in DOMAIN sumModule :
      sumModule[key] # <<>> => ~LeftLiteral(key)

\* the URLs the selected modules declare for the key, in scanning order
RECURSIVE Scanned(_, _)
Scanned(mods, key) ==
  IF mods = <<>> THEN <<>>
  ELSE FilesGet(files[Head(mods)], key) \o Scanned(Tail(mods), key)

\* the position at which url is first seen in list
FirstSeen(list, url) ==
  CHOOSE i \in 1..Len(list) :
    list[i] = url /\ \A j \in 1..(i - 1) : list[j] # url

\* C18: for every declared category key the merged list is the union of the
\* selected modules' URLs for the key, holds no URL twice and keeps the order
\* in which the URLs are first seen when the modules are scanned in
\* selection order.
C18_MergeIsOrderedUnion ==
  (PasteBuilt /\ sumModule # NoSum) =>
    /\ DOMAIN sumModule = SeqRange(template.fileTypes)
    /\ \A key \in DOMAIN sumModule :
         LET merged == sumModule[key]
             seen == Scanned(modules, key)
         IN  /\ SeqRange(merged) = SeqRange(seen)
             /\ \A i, j \in 1..Len(merged) : i # j => merged[i] # merged[j]
             /\ \A i, j \in 1..Len(merged) :
                  i < j => FirstSeen(seen, merged[i]) < FirstSeen(seen, merged[j])

\* a URL declared twice is merged once, and a later module adds a new URL
\* behind the ones of an earlier module
C18_Witness ==
  /\ pc = "scripted" /\ Len(modules) = 2
  /\ "nodes" \in DOMAIN sumModule
  /\ sumModule["nodes"] = <<"Y", "X">>
  /\ Scanned(modules, "nodes") = <<"Y", "Y", "X", "Y">>

\* an offer has been picked at the select prompt
OfferChosen == choice # NoOffer

\* C19: no offer is presented, and so none can be picked, whose recomputed
\* hourly cost gpuCostPerHour + diskHour * (disk bytes / 1e10) exceeds the
\* maximum hourly cost.  Both sides are multiplied by TenGiga.
C19_RecomputedCostWithinBudget ==
  OfferChosen =>
    choice.search.gpuCostPerHour * TenGiga
      + choice.search.diskHour * diskSizeBytes <= MaxHourlyCost * TenGiga

\* the accelerator names of the catalog that belong to the denied generation
DeniedNames == { Chars_rtx5080, Chars_RTX5090 }

\* the offers the select prompt shows
Presented == SeqRange(formatOffers(MaxHourlyCost, offers.list))

\* C20: an offer whose accelerator name matches the denylist pattern is never
\* presented for selection and never the target of a create request,
\* whatever its price.
C20_DeniedOfferNeverOffered ==
  /\ pc = "selectOffer" => \A o \in Presented : o.gpu_name \notin DeniedNames
  /\ OfferChosen => choice.gpu_name \notin DeniedNames
  /\ sent["create"] > 0 => OfferChosen /\ choice.gpu_name \notin DeniedNames

\* a create request went out while the catalog listed cheaper denied offers
C20_Witness ==
  /\ sent["create"] > 0
  /\ \E i \in 1..Len(offers.list) :
       /\ offers.list[i].gpu_name \in DeniedNames
       /\ offers.list[i].search.totalHour < choice.search.totalHour
       /\ offers.list[i].search.totalHour <= MaxHourlyCost

\* the offers of a list of choices
Values(cs) == [ i \in 1..Len(cs) |-> cs[i].value ]

RECURSIVE IsSubSeq(_, _)
\* a is b with some elements left out
IsSubSeq(a, b) ==
  IF a = <<>> THEN TRUE
  ELSE IF b = <<>> THEN FALSE
  ELSE IF Head(a) = Head(b) THEN IsSubSeq(Tail(a), Tail(b))
  ELSE IsSubSeq(a, Tail(b))

\* the offers of the list that pass the denylist and the budget
Passing ==
  { o \in SeqRange(offers.list) :
      o.gpu_name \notin DeniedNames /\ o.search.totalHour <= MaxHourlyCost }

\* C21: every call of the filter on the same offer list returns the same
\* choices in the same order, the offers returned are the passing ones as a
\* subsequence of the list in the server's order, and no call leaves state
\* behind for a later one.
C21_FilterIsPureAndOrdered ==
  /\ lastIndex = 0
  /\ \A r \in 1..Len(offerChoices) :
       /\ offerChoices[r] = offerChoices[1]
       /\ IsSubSeq(Values(offerChoices[r]), offers.list)
       /\ SeqRange(Values(offerChoices[r])) = Passing

\* the filter ran twice on a list with denied, passing and too expensive offers
C21_Witness ==
  /\ pc = "filtering" /\ Len(offerChoices) = 2
  /\ Len(offers.list) = Len(OfferPool)
  /\ Len(offerChoices[2]) = 3

\* the totalHour figures of the offers of a list of choices
Totals(cs) == { cs[i].value.search.totalHour : i \in 1..Len(cs) }

\* C22: the cost ratio of every surviving offer is a defined number in
\* [0, 1], 0 for the cheapest and 1 for the most expensive surviving offer
\* (when all surviving offers cost the same, only the range is asked for).
C22_CostRatioNormalized ==
  \A r \in 1..Len(offerChoices) :
    \A i \in 1..Len(offerChoices[r]) :
      LET c   == offerChoices[r][i]
          all == Totals(offerChoices[r])
          lo  == CHOOSE x \in all : \A y \in all : x <= y
          hi  == CHOOSE x \in all : \A y \in all : x >= y
      IN  /\ c.ratio.den > 0
          /\ 0 <= c.ratio.num /\ c.ratio.num <= c.ratio.den
          /\ lo < hi =>
               /\ c.value.search.totalHour = lo => c.ratio.num = 0
               /\ c.value.search.totalHour = hi => c.ratio.num = c.ratio.den

\* the confirmation message has been built
Quoted == quote # NoQuote

\* hourlyDiskCost and the running cost, times TenGiga, in 1/10000 $
StoppedTimesTenGiga == choice.search.diskHour * diskSizeBytes

RunningTimesTenGiga == choice.search.gpuCostPerHour * TenGiga + StoppedTimesTenGiga

Abs(x) == IF x < 0 THEN -x ELSE x

\* C23 as stated: the quoted stopped cost is diskHour * (bytes / 1e10), the
\* quoted running cost is gpuCostPerHour plus that, and running minus stopped
\* is gpuCostPerHour.
C23_QuotedCostsExact ==
  Quoted =>
    /\ quote.storageCost * Milli * TenGiga = StoppedTimesTenGiga
    /\ quote.hourlyCost * Milli * TenGiga = RunningTimesTenGiga
    /\ (quote.hourlyCost - quote.storageCost) * Milli = choice.search.gpuCostPerHour

\* C23, amended: each quoted figure is its cost rounded to three decimals,
\* so it lies within 0.0005 $ of diskHour * (bytes / 1e10), respectively of
\* gpuCostPerHour plus that, and quoted running minus quoted stopped lies
\* within 0.001 $ of gpuCostPerHour.
C23_QuotedCostsRounded ==
  Quoted =>
    /\ 2 * Abs(quote.storageCost * Milli * TenGiga - StoppedTimesTenGiga)
         <= Milli * TenGiga
    /\ 2 * Abs(quote.hourlyCost * Milli * TenGiga - RunningTimesTenGiga)
         <= Milli * TenGiga
    /\ Abs((quote.hourlyCost - quote.storageCost) * Milli
             - choice.search.gpuCostPerHour) <= Milli

\* a quote whose two figures were rounded in different directions
C23_Witness ==
  /\ pc = "costed" /\ Quoted
  /\ quote.storageCost * Milli * TenGiga > StoppedTimesTenGiga
  /\ quote.hourlyCost * Milli * TenGiga < RunningTimesTenGiga

\* the signal that asks for a lifecycle request
MatchingSignal(kind) == IF kind = "stop" THEN "SIGQUIT" ELSE "SIGINT"

\* C24: a stop-update or delete request is only issued by the step that
\* delivers the matching signal (SIGQUIT for stop, SIGINT for delete); no
\* other step of the run issues one.
C24_LifecycleOnlyOnSignal ==
  [][ \A kind \in {"stop", "delete"} :
        (sent'[kind] # sent[kind] \/ lifecycle' # lifecycle) =>
          /\ signals' = Append(signals, MatchingSignal(lifecycle'[Len(lifecycle')].kind))
          /\ lifecycle' = Append(lifecycle, lifecycle'[Len(lifecycle')])
          /\ sent' = [ sent EXCEPT ![lifecycle'[Len(lifecycle')].kind] = @ + 1 ]
    ]_vars

\* both kinds of request were issued in one run
C24_Witness == sent["stop"] = 1 /\ sent["delete"] = 1 /\ Len(signals) = 2

\* C25: once a lease exists, the process does not exit before a stop or a
\* delete request has been issued by a signal handler.
C25_LeaseKeepsProcessWaiting ==
  (HasContract(result) /\ Exited) => LifecycleSent > 0

RECURSIVE ProbedInTurn(_, _, _)
\* the size map of a module whose first n URLs were answered ans, sized one
\* after another
ProbedInTurn(urls, ans, n) ==
  IF n = 0 THEN <<>>
  ELSE MapSet(ProbedInTurn(urls, ans, n - 1), urls[n], getUrlSize(urls[n], ans[n]))

\* the size maps of all modules, each sized on its own from its answers
MapsInTurn ==
  [ m \in Modules |-> ProbedInTurn(ModuleUrls(m), answers[m], Len(answers[m])) ]

\* C26: in every interleaving of the modules' probes each module's size map
\* is the one its own answers give when taken one after another, and the
\* disk size is computed from these maps only after every probe has settled.
C26_ProbesOrderIndependent ==
  /\ fileSizes = MapsInTurn
  /\ diskSizeBytes # 0 =>
       /\ ProbesSettled
       /\ \A m \in SeqRange(modules) : Len(answers[m]) = Len(ModuleUrls(m))
       /\ diskSizeBytes = DiskSize(template, modules, MapsInTurn)

\* module B's first probe is answered while module A, started before it,
\* still waits for its answer on the same URL
C26_Witness ==
  /\ pc = "probing"
  /\ answers["A"] = <<>> /\ Len(answers["B"]) = 1
  /\ ModuleUrls("A")[1] = ModuleUrls("B")[1]

\* C27: the search, the publish and the create request are each issued at
\* most once in a run, also after one of them has failed.
C27_NoRequestIsRepeated ==
  \A kind \in {"search", "publish", "create"} : sent[kind] <= 1

\* the three requests were issued and the create call was rejected
C27_Witness ==
  /\ sent["search"] = 1 /\ sent["publish"] = 1 /\ sent["create"] = 1
  /\ net["create"].status = "reject"

\* the text is a raw-content URL of the paste service
IsRawUrl(text) ==
  /\ Len(text) = 4
  /\ text[1] = "https://" /\ text[2] = "pastebin.com/" /\ text[3] = "raw/"

\* C28: the environment map of the create request holds every static
\* variable of the template unchanged, and holds PROVISIONER_SCRIPT exactly
\* when the template declares a script, with the raw-content URL the publish
\* step returned as its value; the template itself is left as it was read.
C28_EnvironmentMap ==
  sent["create"] > 0 =>
    /\ \A i \in 1..Len(template.environment) :
         template.environment[i] \in SeqRange(request.extra_env)
    /\ MapHas(request.extra_env, "PROVISIONER_SCRIPT") <=> Truthy(template.script)
    /\ Truthy(template.script) =>
         IsRawUrl(MapGet(request.extra_env, "PROVISIONER_SCRIPT"))
    /\ template \in TemplateSet
    /\ ~MapHas(template.environment, "PROVISIONER_SCRIPT")

\* the operator answered no to the confirmation
Declined == "log: user declined to deploy" \in console

\* C29: the publish and the create request are issued only after the
\* confirmation returned true; after a declined confirmation neither is
\* issued, no signal handler is registered and the process has ended with
\* status 0.
C29_NoMutationBeforeConfirmation ==
  /\ (sent["publish"] > 0 \/ sent["create"] > 0) => confirmed
  /\ ~confirmed => (request = NoRequest /\ result = NoResult /\ ~handlers)
  /\ Declined =>
       /\ ~confirmed
       /\ sent["publish"] = 0 /\ sent["create"] = 0
       /\ ~handlers /\ lifecycle = <<>>
       /\ exitStatus = 0

\* the operator declined after an offer was chosen and the costs were quoted
C29_Witness == Declined /\ OfferChosen /\ Quoted /\ Exited

\* the create request may have produced a lease: its answer names one, or
\* the answer has not been received
LeaseMayExist ==
  sent["create"] > 0 /\ (result = NoResult \/ HasContract(result))

\* C30: once the create request has been sent, a SIGINT delivered at any
\* later moment leads to a delete request for the lease.
C30_InterruptAlwaysDeletes ==
  (LeaseMayExist /\ "SIGINT" \in SeqRange(signals)) => sent["delete"] > 0

====
